---- MODULE Spec2Model ----
(***************************************************************************)
(* Model of analyzer.py (android-ndk-size-analyzer): the run of process()  *)
(* over one ELF file (open, ELFFile, architecture, the section pass, the   *)
(* sort and truncation, print_statistics with the c++filt demangler), and  *)
(* the pure function sizeof_fmt.                                           *)
(*                                                                         *)
(* Byte counts handed to sizeof_fmt are arbitrary-precision Python ints    *)
(* that the code divides as IEEE doubles.  They are modelled as sequences  *)
(* of base-1024 digits ("limbs"), most significant first, without leading  *)
(* zeros (0 is the empty sequence), so that counts beyond 2^31 and the     *)
(* 53-bit rounding of int -> float are computed exactly.                   *)
(***************************************************************************)
EXTENDS Integers, Sequences, FiniteSets

VARIABLES
    pc,              \* where process() stands
    symbol_count,    \* the --symbols option, N
    opens,           \* open(filename) calls made so far
    file_open,       \* the file object of _parse_file is open
    elf_header,      \* the file's header as ELFFile read it
    sections,        \* the file's sections as iter_sections has yielded them
    architecture,    \* AndroidLibrary.architecture
    symbols,         \* the local list of _parse_file
    total_size,      \* AndroidLibrary.total_size
    total_strings,   \* AndroidLibrary.total_strings
    total_constants, \* AndroidLibrary.total_constants
    top_symbols,     \* AndroidLibrary.top_symbols
    cxxfilt,         \* what the c++filt subprocess did, once demangle has run
    error,           \* the exception that ended the run
    stdout,          \* the lines printed
    fmt_num,         \* sizeof_fmt's argument, applied on its own
    fmt_out          \* and its result

vars == <<pc, symbol_count, opens, file_open, elf_header, sections, architecture,
          symbols, total_size, total_strings, total_constants, top_symbols,
          cxxfilt, error, stdout, fmt_num, fmt_out>>

runVars == <<pc, symbol_count, opens, file_open, elf_header, sections, architecture,
             symbols, total_size, total_strings, total_constants, top_symbols,
             cxxfilt, error, stdout>>

\* ------------------------------------------------------------------ bounds
MaxSections == 2   \* sections read from one file
MaxSyms == 3       \* symbol entries read from one file
MaxN == 2          \* largest --symbols value tried
MaxLimbs == 9      \* longest byte count handed to sizeof_fmt, in limbs

\* --------------------------------------------------------- program constants
Base == 1024       \* the divisor of sizeof_fmt
MantBits == 53     \* significand width of the double behind 1024.0
LimbBits == 10     \* 1024 = 2^10: one limb is ten bits

\* -------------------------------------------------------------- sizeof_fmt
RECURSIVE Pow2(_)
Pow2(n) == IF n = 0 THEN 1 ELSE 2 * Pow2(n - 1)

RECURSIVE BitLen(_)
\* number of bits of a limb (0 for 0)
BitLen(c) == IF c = 0 THEN 0 ELSE 1 + BitLen(c \div 2)

RECURSIVE Zeros(_)
Zeros(n) == IF n = 0 THEN <<>> ELSE <<0>> \o Zeros(n - 1)

AllZero(s) == \A i \in 1..Len(s) : s[i] = 0

RECURSIVE IntToLimbs(_)
IntToLimbs(n) == IF n = 0 THEN <<>> ELSE Append(IntToLimbs(n \div Base), n % Base)

RECURSIVE LimbsToInt(_)
LimbsToInt(s) ==
    IF s = <<>> THEN 0
    ELSE LimbsToInt(SubSeq(s, 1, Len(s) - 1)) * Base + s[Len(s)]

RECURSIVE AddAtEnd(_, _)
\* s + a, the addend a < 1024 aligned with the last limb, carries propagated
AddAtEnd(s, a) ==
    IF a = 0 THEN s
    ELSE IF s = <<>> THEN <<a>>
    ELSE LET t == s[Len(s)] + a
         IN  Append(AddAtEnd(SubSeq(s, 1, Len(s) - 1), t \div Base), t % Base)

\* float(num): the int rounded to 53 significant bits, ties to even
ToDouble(s) ==
    IF s = <<>> THEN s
    ELSE
    LET bits == LimbBits * (Len(s) - 1) + BitLen(s[1])
    IN  IF bits <= MantBits THEN s
        ELSE
        LET drop == bits - MantBits
            q    == drop \div LimbBits
            r    == drop % LimbBits
            kept == SubSeq(s, 1, Len(s) - q)
            tail == SubSeq(s, Len(s) - q + 1, Len(s))
            c    == kept[Len(kept)]
            low  == c % Pow2(r)
            trunc == [kept EXCEPT ![Len(kept)] = c - low]
            odd  == (c \div Pow2(r)) % 2 = 1
            above == IF r > 0
                     THEN low > Pow2(r - 1) \/ (low = Pow2(r - 1) /\ ~AllZero(tail))
                     ELSE tail[1] > Base \div 2
                          \/ (tail[1] = Base \div 2 /\ ~AllZero(SubSeq(tail, 2, Len(tail))))
            tie  == IF r > 0
                    THEN low = Pow2(r - 1) /\ AllZero(tail)
                    ELSE tail[1] = Base \div 2 /\ AllZero(SubSeq(tail, 2, Len(tail)))
            up   == above \/ (tie /\ odd)
        IN  (IF up THEN AddAtEnd(trunc, Pow2(r)) ELSE trunc) \o Zeros(q)

RECURSIVE Times10(_)
\* 10 * (a fraction given by its limbs): [carry, frac]
Times10(f) ==
    IF f = <<>> THEN [carry |-> 0, frac |-> <<>>]
    ELSE LET rest == Times10(SubSeq(f, 2, Len(f)))
             t    == 10 * f[1] + rest.carry
         IN  [carry |-> t \div Base, frac |-> <<t % Base>> \o rest.frac]

RECURSIVE Digits(_)
Digits(n) ==
    IF n < 10 THEN <<SubSeq(<<"0","1","2","3","4","5","6","7","8","9">>, n + 1, n + 1)[1]>>
    ELSE Digits(n \div 10) \o Digits(n % 10)

\* "%3.1f" % value (and "%.1f"): value = digits / 1024^point, printed with one
\* decimal, correctly rounded, ties to even.  Returns the number of tenths.
Tenths(digits, point) ==
    LET whole == LimbsToInt(SubSeq(digits, 1, Len(digits) - point))
        frac  == SubSeq(digits, Len(digits) - point + 1, Len(digits))
        m     == Times10(frac)
        d     == m.carry
        rem   == m.frac
        above == rem # <<>> /\ (rem[1] > Base \div 2
                    \/ (rem[1] = Base \div 2 /\ ~AllZero(SubSeq(rem, 2, Len(rem)))))
        tie   == rem # <<>> /\ rem[1] = Base \div 2 /\ AllZero(SubSeq(rem, 2, Len(rem)))
        up    == above \/ (tie /\ d % 2 = 1)
    IN  10 * whole + d + (IF up THEN 1 ELSE 0)

Units == <<"", "Ki", "Mi", "Gi", "Ti", "Pi", "Ei", "Zi">>

UnitChars(u) ==
    CASE u = ""   -> <<>>
      [] u = "Ki" -> <<"K", "i">>
      [] u = "Mi" -> <<"M", "i">>
      [] u = "Gi" -> <<"G", "i">>
      [] u = "Ti" -> <<"T", "i">>
      [] u = "Pi" -> <<"P", "i">>
      [] u = "Ei" -> <<"E", "i">>
      [] u = "Zi" -> <<"Z", "i">>
      [] u = "Yi" -> <<"Y", "i">>

\* the formatted text, one character per element, with its parts kept beside it
Formatted(digits, point, unit) ==
    LET t == Tenths(digits, point)
    IN  [text   |-> Digits(t \div 10) \o <<".">> \o Digits(t % 10) \o UnitChars(unit) \o <<"B">>,
         tenths |-> t,
         unit   |-> unit]

RECURSIVE FmtLoop(_, _, _)
\* the for loop of sizeof_fmt at unit number i, num = digits / 1024^point
FmtLoop(digits, point, i) ==
    IF i > Len(Units) THEN Formatted(digits, point, "Yi")
    ELSE IF Len(digits) - point <= 1 THEN Formatted(digits, point, Units[i])
    ELSE FmtLoop(ToDouble(digits), point + 1, i + 1)

sizeof_fmt_skip(num) == FmtLoop(num, 0, 2)

sizeof_fmt(num) == FmtLoop(num, 0, 1)


\* ------------------------------------------------------------ input domains
EiClasses == {"ELFCLASS32", "ELFCLASS64"}
Machines == {"EM_ARM", "EM_AARCH64", "EM_386", "EM_X86_64", "EM_MIPS"}
Headers == [ei_class : EiClasses, e_machine : Machines]
NoHeader == [ei_class |-> "none", e_machine |-> "none"]

PassHeaders == {[ei_class |-> "ELFCLASS32", e_machine |-> "EM_ARM"]}

\* string tables and sections that are neither symbol nor string tables
Sect(kind, name, sh_size) ==
    [kind |-> kind, name |-> name, sh_size |-> sh_size, syms |-> <<>>]

PlainSections ==
    { Sect("strtab", ".strtab", 2), Sect("strtab", ".dynstr", 1),
      Sect("strtab", ".rodata", 2),
      Sect("other", ".rodata", 1), Sect("other", ".rodata", 2),
      Sect("other", ".rodata.cst4", 2) }
\* symbol entries: a zero-size one, two names of one size, a larger one
Sym(name, st_size) == [name |-> name, st_size |-> st_size]

SymPool == { Sym("_Z1fv", 0), Sym("_Z1fv", 1), Sym("main", 1), Sym("main", 2) }

SymtabSection(syms) ==
    [kind |-> "symtab", name |-> ".dynsym", sh_size |-> 2, syms |-> syms]

SeqsUpTo(S, n) == UNION {[1..k -> S] : k \in 0..n}

\* ------------------------------------------------------------- Architecture
Architecture == {"ARM_32", "ARM_64", "X86", "X86_64", "UNKNOWN"}

_machine_description(header) ==
    LET is_64_bit == header.ei_class = "ELFCLASS64"
    IN  IF is_64_bit
        THEN IF header.e_machine = "EM_ARM" THEN "ARM_64"
             ELSE IF header.e_machine = "EM_386" THEN "X86_64"
             ELSE "UNKNOWN"
        ELSE IF header.e_machine = "EM_ARM" THEN "ARM_32"
             ELSE IF header.e_machine = "EM_386" THEN "X86"
             ELSE "UNKNOWN"

\* ----------------------------------------------------------------- demangle
\* c++filt on one name: an Itanium-mangled name is rewritten, any other echoed
Filt(name) == IF name = "_Z1fv" THEN "f()" ELSE name

FiltAll(names) == [i \in 1..Len(names) |-> Filt(names[i])]

\* What Popen/communicate and the split of stdout can give: no process at all
\* (OSError), one line per name and the final '', or some other line count
\* (nothing printed; a line too many).
CxxfiltRuns(names) ==
    {[status |-> "OSError", lines |-> <<>>]}
    \cup {[status |-> "ran", lines |-> l] :
            l \in {FiltAll(names) \o <<"">>, <<"">>, FiltAll(names) \o <<"", "">>}}

NotRun == [status |-> "not run", lines |-> <<>>]

demangle_drop(names, run) ==
    IF run.status = "OSError" THEN [raised |-> "none", value |-> <<>>]
    ELSE IF Len(run.lines) # Len(names) + 1
         THEN [raised |-> "AssertionError", value |-> <<>>]
    ELSE [raised |-> "none", value |-> SubSeq(run.lines, 1, Len(run.lines) - 1)]

demangle(names, run) ==
    IF run.status = "OSError" THEN [raised |-> "none", value |-> names]
    ELSE IF Len(run.lines) # Len(names) + 1
         THEN [raised |-> "AssertionError", value |-> <<>>]
    ELSE [raised |-> "none", value |-> SubSeq(run.lines, 1, Len(run.lines) - 1)]

\* ------------------------------------------------------------ the section pass
_process_symbol_assign(acc, symbol) ==
    [total_size |-> symbol.st_size,
     symbols    |-> IF symbol.st_size > 0
                    THEN Append(acc.symbols, <<symbol.name, symbol.st_size>>)
                    ELSE acc.symbols]

\* acc holds self.total_size and the list `symbols`
_process_symbol(acc, symbol) ==
    [total_size |-> acc.total_size + symbol.st_size,
     symbols    |-> IF symbol.st_size > 0
                    THEN Append(acc.symbols, <<symbol.name, symbol.st_size>>)
                    ELSE acc.symbols]

RECURSIVE ProcessSymbols(_, _)
\* for symbol in section_syms: self._process_symbol(symbols, symbol)
ProcessSymbols(acc, syms) ==
    IF syms = <<>> THEN acc
    ELSE ProcessSymbols(_process_symbol(acc, Head(syms)), Tail(syms))

IsDebugStrtab_never(sect) == FALSE

\* sect.name == ".strtab"
IsDebugStrtab(sect) == sect.name = ".strtab"

IsRodata_prefix(sect) == sect.name \in {".rodata", ".rodata.cst4"}

\* sect.name == ".rodata"
IsRodata(sect) == sect.name = ".rodata"

\* ------------------------------------------------------ the sort and the slice
RECURSIVE InsertBefore(_, _)
InsertBefore(sorted, v) ==
    IF sorted = <<>> THEN <<v>>
    ELSE IF Head(sorted)[2] > v[2] THEN <<Head(sorted)>> \o InsertBefore(Tail(sorted), v)
    ELSE <<v>> \o sorted

RECURSIVE InsertDesc(_, _)
\* v goes behind every entry whose key is at least its own
InsertDesc(sorted, v) ==
    IF sorted = <<>> THEN <<v>>
    ELSE IF Head(sorted)[2] >= v[2] THEN <<Head(sorted)>> \o InsertDesc(Tail(sorted), v)
    ELSE <<v>> \o sorted

RECURSIVE SortTiesReversed(_)
SortTiesReversed(list) ==
    IF list = <<>> THEN <<>>
    ELSE InsertBefore(SortTiesReversed(SubSeq(list, 1, Len(list) - 1)), list[Len(list)])

RECURSIVE SortDesc(_)
\* symbols.sort(key=lambda value: value[1], reverse=True): stable, descending
SortDesc(list) ==
    IF list = <<>> THEN <<>>
    ELSE InsertDesc(SortDesc(SubSeq(list, 1, Len(list) - 1)), list[Len(list)])

Min(a, b) == IF a < b THEN a ELSE b

Slice_short(list, n) == SubSeq(list, 1, Min(n, Len(list)) - 1)

\* symbols[:symbol_count], symbol_count >= 0
Slice(list, n) == SubSeq(list, 1, Min(n, Len(list)))

\* -------------------------------------------------------------------- stdout
Line(tag) == [tag |-> tag, name |-> "", size |-> 0, text |-> <<>>]

ArchLine(arch) == [tag |-> "Architecture", name |-> arch, size |-> 0, text |-> <<>>]

SymLine(name, size) == [tag |-> "symbol", name |-> name, size |-> size, text |-> <<>>]

TotalLine(tag, n) ==
    [tag |-> tag, name |-> "", size |-> n, text |-> sizeof_fmt(IntToLimbs(n)).text]

TotalTags == {"Total size of symbols", "Total size of strings",
              "Total size of constants", "Filesize"}

Printed(tag) == \E i \in 1..Len(stdout) : stdout[i].tag = tag

\* ------------------------------------------------------------- exceptions
process_except_swallow(exc) == IF exc = "KeyboardInterrupt" THEN "cancelled" ELSE "parsed"

\* process(): `except KeyboardInterrupt` is the only handler; anything else
\* leaves process() as an uncaught exception
process_except(exc) == IF exc = "KeyboardInterrupt" THEN "cancelled" ELSE "failed"

\* the state an exception leaves behind: the with block has closed the file
Raise(exc, out) ==
    /\ pc' = process_except(exc)
    /\ error' = exc
    /\ file_open' = FALSE
    /\ stdout' = IF exc = "KeyboardInterrupt" THEN Append(out, Line("Cancelled!")) ELSE out

\* --------------------------------------------------------------------- Init
RunInit(counts) ==
    /\ pc = "start"
    /\ symbol_count \in counts
    /\ opens = 0
    /\ file_open = FALSE
    /\ elf_header = NoHeader
    /\ sections = <<>>
    /\ architecture = "UNKNOWN"
    /\ symbols = <<>>
    /\ total_size = 0
    /\ total_strings = 0
    /\ total_constants = 0
    /\ top_symbols = <<>>
    /\ cxxfilt = NotRun
    /\ error = "none"
    /\ stdout = <<>>

NoFmt == [text |-> <<>>, tenths |-> -1, unit |-> "none"]

Init ==
    /\ RunInit(0..MaxN)
    /\ fmt_num = <<>>
    /\ fmt_out = NoFmt

\* ------------------------------------------------------------------ actions
SymsRead == LET RECURSIVE Count(_)
                Count(i) == IF i = 0 THEN 0 ELSE Count(i - 1) + Len(sections[i].syms)
            IN  Count(Len(sections))

\* process() up to open(filename, 'rb') returning the file
OpenFile ==
    /\ pc = "start"
    /\ opens' = opens + 1
    /\ file_open' = TRUE
    /\ pc' = "opened"
    /\ stdout' = stdout \o <<Line("NDK library size analyzer"), Line("Processing")>>
    /\ UNCHANGED <<symbol_count, elf_header, sections, architecture, symbols, total_size,
                   total_strings, total_constants, top_symbols, cxxfilt, error,
                   fmt_num, fmt_out>>

\* open() raises: the file is missing or unreadable
OpenFails ==
    /\ pc = "start"
    /\ opens' = opens + 1
    /\ Raise("IOError", stdout \o <<Line("NDK library size analyzer"), Line("Processing")>>)
    /\ UNCHANGED <<symbol_count, elf_header, sections, architecture, symbols, total_size,
                   total_strings, total_constants, top_symbols, cxxfilt,
                   fmt_num, fmt_out>>

\* ELFFile(file), _machine_description and the Architecture line
LoadElf(headers) ==
    /\ pc = "opened"
    /\ \E h \in headers :
         /\ elf_header' = h
         /\ architecture' = _machine_description(h)
    /\ stdout' = Append(stdout, ArchLine(architecture'))
    /\ pc' = "sections"
    /\ UNCHANGED <<symbol_count, opens, file_open, sections, symbols, total_size,
                   total_strings, total_constants, top_symbols, cxxfilt, error,
                   fmt_num, fmt_out>>

\* ELFFile(file) raises ELFError: not a valid ELF
NotElf ==
    /\ pc = "opened"
    /\ Raise("ELFError", stdout)
    /\ UNCHANGED <<symbol_count, opens, elf_header, sections, architecture, symbols,
                   total_size, total_strings, total_constants, top_symbols, cxxfilt,
                   fmt_num, fmt_out>>

InPass == pc = "sections" /\ Len(sections) < MaxSections

\* a SymbolTableSection: every symbol goes through _process_symbol
ProcessSymbolTable ==
    /\ InPass
    /\ \E syms \in SeqsUpTo(SymPool, MaxSyms - SymsRead) :
         LET acc == ProcessSymbols([total_size |-> total_size, symbols |-> symbols], syms)
         IN  /\ sections' = Append(sections, SymtabSection(syms))
             /\ total_size' = acc.total_size
             /\ symbols' = acc.symbols
    /\ UNCHANGED <<pc, symbol_count, opens, file_open, elf_header, architecture,
                   total_strings, total_constants, top_symbols, cxxfilt, error, stdout,
                   fmt_num, fmt_out>>

\* a SymbolTableSection whose entry after `syms` fails to parse
SymbolTableCorrupt ==
    /\ InPass
    /\ \E syms \in SeqsUpTo(SymPool, MaxSyms - SymsRead) :
         LET acc == ProcessSymbols([total_size |-> total_size, symbols |-> symbols], syms)
         IN  /\ sections' = Append(sections, SymtabSection(syms))
             /\ total_size' = acc.total_size
             /\ symbols' = acc.symbols
    /\ Raise("ELFError", stdout)
    /\ UNCHANGED <<symbol_count, opens, elf_header, architecture,
                   total_strings, total_constants, top_symbols, cxxfilt,
                   fmt_num, fmt_out>>

\* a StringTableSection
ProcessStringTable ==
    /\ InPass
    /\ \E sect \in {x \in PlainSections : x.kind = "strtab"} :
         /\ sections' = Append(sections, sect)
         /\ total_strings' = IF IsDebugStrtab(sect) THEN total_strings
                             ELSE total_strings + sect.sh_size
    /\ UNCHANGED <<pc, symbol_count, opens, file_open, elf_header, architecture, symbols,
                   total_size, total_constants, top_symbols, cxxfilt, error, stdout,
                   fmt_num, fmt_out>>

\* any other section
ProcessOtherSection ==
    /\ InPass
    /\ \E sect \in {x \in PlainSections : x.kind = "other"} :
         /\ sections' = Append(sections, sect)
         /\ total_constants' = IF IsRodata(sect) THEN total_constants + sect.sh_size
                               ELSE total_constants
    /\ UNCHANGED <<pc, symbol_count, opens, file_open, elf_header, architecture, symbols,
                   total_size, total_strings, top_symbols, cxxfilt, error, stdout,
                   fmt_num, fmt_out>>

\* iter_sections raises on a section header it cannot parse
SectionParseError ==
    /\ pc = "sections"
    /\ Raise("ELFError", stdout)
    /\ UNCHANGED <<symbol_count, opens, elf_header, sections, architecture, symbols,
                   total_size, total_strings, total_constants, top_symbols, cxxfilt,
                   fmt_num, fmt_out>>

\* the loop ends: the with block closes the file, the list is sorted and cut,
\* _parse_file and __init__ return
EndOfSections ==
    /\ pc = "sections"
    /\ file_open' = FALSE
    /\ top_symbols' = Slice(SortDesc(symbols), symbol_count)
    /\ symbols' = <<>>
    /\ stdout' = Append(stdout, Line("Done!"))
    /\ pc' = "parsed"
    /\ UNCHANGED <<symbol_count, opens, elf_header, sections, architecture, total_size,
                   total_strings, total_constants, cxxfilt, error, fmt_num, fmt_out>>

Names(top) == [i \in 1..Len(top) |-> top[i][1]]

Sizes(top) == [i \in 1..Len(top) |-> top[i][2]]

\* zip(a, b), printed one line per pair
ZipLines(names, sizes) ==
    [i \in 1..Min(Len(names), Len(sizes)) |-> SymLine(names[i], sizes[i])]

TotalsLines ==
    << TotalLine("Total size of symbols", total_size),
       TotalLine("Total size of strings", total_strings),
       TotalLine("Total size of constants", total_constants),
       TotalLine("Filesize", total_size + total_strings + total_constants) >>

\* library.print_statistics() up to the point where it waits: the heading is
\* printed; without top symbols print_symbol_sizes returns at once and the
\* totals follow, otherwise demangle starts c++filt and blocks in
\* pipe.communicate()
PrintStatistics ==
    /\ pc = "parsed"
    /\ IF Len(top_symbols) = 0
       THEN /\ stdout' = Append(stdout, Line("Symbol sizes:")) \o TotalsLines
            /\ pc' = "done"
       ELSE /\ stdout' = Append(stdout, Line("Symbol sizes:"))
            /\ pc' = "demangling"
    /\ UNCHANGED <<symbol_count, opens, file_open, elf_header, sections, architecture,
                   symbols, total_size, total_strings, total_constants, top_symbols,
                   cxxfilt, error, fmt_num, fmt_out>>

\* c++filt is over (or could not be started): demangle returns or raises, the
\* symbol lines and the totals are printed
DemangleAndReport ==
    /\ pc = "demangling"
    /\ \E run \in CxxfiltRuns(Names(top_symbols)) :
         LET res == demangle(Names(top_symbols), run)
         IN  /\ cxxfilt' = run
             /\ IF res.raised = "none"
                THEN /\ stdout' = stdout \o ZipLines(res.value, Sizes(top_symbols))
                                  \o TotalsLines
                     /\ pc' = "done"
                     /\ UNCHANGED <<error, file_open>>
                ELSE Raise(res.raised, stdout)
    /\ UNCHANGED <<symbol_count, opens, elf_header, sections, architecture, symbols,
                   total_size, total_strings, total_constants, top_symbols,
                   fmt_num, fmt_out>>

\* Ctrl-C while the library is read, before the report, or while demangle waits
\* for c++filt
Interrupt ==
    /\ pc \in {"opened", "sections", "parsed", "demangling"}
    /\ Raise("KeyboardInterrupt", stdout)
    /\ UNCHANGED <<symbol_count, opens, elf_header, sections, architecture, symbols,
                   total_size, total_strings, total_constants, top_symbols, cxxfilt,
                   fmt_num, fmt_out>>

Run(headers) ==
    \/ OpenFile
    \/ OpenFails
    \/ LoadElf(headers)
    \/ NotElf
    \/ ProcessSymbolTable
    \/ SymbolTableCorrupt
    \/ ProcessStringTable
    \/ ProcessOtherSection
    \/ SectionParseError
    \/ EndOfSections
    \/ PrintStatistics
    \/ DemangleAndReport
    \/ Interrupt

Next == Run(PassHeaders)

Spec == Init /\ [][Next]_vars

NextArch == Run(Headers)

\* the same run over every header
SpecArch == Init /\ [][NextArch]_vars

\* ------------------------------------------------- sizeof_fmt on its own
LeadLimbs == {1, 7, 8, 512, 1023}
FillLimbs == {0, 512, 1023}
LastLimbs == {0, 1, 256, 512, 1023}

RECURSIVE Repeat(_, _)
Repeat(c, n) == IF n = 0 THEN <<>> ELSE <<c>> \o Repeat(c, n - 1)

\* byte counts from 0 to beyond 1024^8: a leading limb, a run of one limb, a last limb
FmtInputs ==
    {<<>>}
    \cup {<<a>> : a \in LeadLimbs}
    \cup {<<a>> \o Repeat(f, k) \o <<z>> :
            a \in LeadLimbs, f \in FillLimbs, z \in LastLimbs, k \in 0..(MaxLimbs - 2)}

FmtInit ==
    /\ RunInit(0..MaxN)
    /\ fmt_num \in FmtInputs
    /\ fmt_out = NoFmt

FmtApply ==
    /\ fmt_out = NoFmt
    /\ fmt_out' = sizeof_fmt(fmt_num)
    /\ UNCHANGED <<fmt_num, runVars>>

SpecFmt == FmtInit /\ [][FmtApply]_vars

\* ------------------------------------------------------------------- claims
\* What the file held, as far as it has been read.
RECURSIVE SymsUpTo(_)
SymsUpTo(i) ==
    IF i = 0 THEN <<>>
    ELSE SymsUpTo(i - 1) \o (IF sections[i].kind = "symtab" THEN sections[i].syms ELSE <<>>)

Encountered == SymsUpTo(Len(sections))

IsNonZero(sym) == sym.st_size > 0
NonZero == SelectSeq(Encountered, IsNonZero)

RECURSIVE SumStSize(_)
SumStSize(syms) == IF syms = <<>> THEN 0 ELSE Head(syms).st_size + SumStSize(Tail(syms))

RECURSIVE SumShSize(_)
SumShSize(sects) == IF sects = <<>> THEN 0 ELSE Head(sects).sh_size + SumShSize(Tail(sects))

IsSymtab(sect) == sect.kind = "symtab"
IsCountedStrtab(sect) == sect.kind = "strtab" /\ sect.name # ".strtab"
IsRodataSection(sect) == sect.kind = "other" /\ sect.name = ".rodata"

ParseReturned == Printed("Done!")

\* C1: total_size is the sum of st_size over every symbol entry of every
\* symbol-table section read, zero-size entries and several symbol tables
\* included; string tables and other sections do not enter the sum.
C1_TotalSizeIsSum == total_size = SumStSize(Encountered)

C1_Witness ==
    /\ ParseReturned
    /\ Len(sections) = 2
    /\ \A i \in 1..2 : IsSymtab(sections[i]) /\ sections[i].syms # <<>>
    /\ \E i \in 1..Len(Encountered) : Encountered[i].st_size = 0
    /\ total_size = 3

\* C2: once _parse_file has returned, top_symbols has min(N, number of
\* encountered symbols of size > 0) entries, and each entry is an encountered
\* symbol of size > 0.
C2_TopLength ==
    ParseReturned =>
        LET met == Encountered
        IN  /\ Len(top_symbols) = Min(symbol_count, Len(SelectSeq(met, IsNonZero)))
            /\ \A i \in 1..Len(top_symbols) :
                 /\ top_symbols[i][2] > 0
                 /\ \E j \in 1..Len(met) :
                      top_symbols[i] = <<met[j].name, met[j].st_size>>

C2_Witness ==
    /\ ParseReturned
    /\ symbol_count = 1
    /\ Len(NonZero) = 2
    /\ Len(Encountered) = 3
    /\ Len(top_symbols) = 1

\* Position of the i-th of the symbols nz in the stable descending order: one
\* more than the number of larger symbols and of equal ones met before it.
Rank(nz, i) ==
    1 + Cardinality({j \in 1..Len(nz) :
                        \/ nz[j].st_size > nz[i].st_size
                        \/ (nz[j].st_size = nz[i].st_size /\ j < i)})

\* C3: top_symbols is non-increasing by size, equal sizes keep their encounter
\* order, and the cut to N keeps the first N of that order, so that no omitted
\* symbol is larger than a retained one.
C3_StableDescending ==
    ParseReturned =>
        LET nz == NonZero
        IN  /\ \A i, j \in 1..Len(top_symbols) :
                 i < j => top_symbols[i][2] >= top_symbols[j][2]
            /\ \A i \in 1..Len(nz) :
                 LET r == Rank(nz, i)
                 IN  IF r <= symbol_count
                     THEN /\ r <= Len(top_symbols)
                          /\ top_symbols[r] = <<nz[i].name, nz[i].st_size>>
                     ELSE \A k \in 1..Len(top_symbols) : nz[i].st_size <= top_symbols[k][2]

C3_Witness ==
    /\ ParseReturned
    /\ symbol_count = 2
    /\ NonZero = <<Sym("_Z1fv", 1), Sym("main", 2), Sym("main", 1)>>
    /\ top_symbols = << <<"main", 2>>, <<"_Z1fv", 1>> >>

\* a step that reads one more section
ReadsSection(sect) ==
    /\ Len(sections') = Len(sections) + 1
    /\ sections'[Len(sections')] = sect

\* C4: a string table named .strtab changes none of the three totals; any
\* other string table adds its sh_size to total_strings and leaves the other
\* two alone; so total_strings is the sum of sh_size over the string tables
\* not named .strtab.
C4_StringTables ==
    /\ [](total_strings = SumShSize(SelectSeq(sections, IsCountedStrtab)))
    /\ [][\A sect \in PlainSections :
            (ReadsSection(sect) /\ sect.kind = "strtab") =>
                /\ total_size' = total_size
                /\ total_constants' = total_constants
                /\ total_strings' = IF sect.name = ".strtab" THEN total_strings
                                    ELSE total_strings + sect.sh_size]_vars

C4_Witness ==
    /\ ParseReturned
    /\ sections = <<Sect("strtab", ".strtab", 2), Sect("strtab", ".dynstr", 1)>>
    /\ total_strings = 1

\* C5: total_constants is the sum of sh_size over the sections that are
\* neither symbol nor string tables and are named exactly .rodata: 0 without
\* one, the sum of all of them when there are several; no other name counts.
C5_RodataOnly == total_constants = SumShSize(SelectSeq(sections, IsRodataSection))

C5_Witness ==
    /\ ParseReturned
    /\ sections = <<Sect("other", ".rodata", 1), Sect("other", ".rodata", 2)>>
    /\ total_constants = 3

\* The classification the claim gives.
X86Family == {"EM_386", "EM_X86_64"}
ClaimedArchitecture(header) ==
    CASE header.ei_class = "ELFCLASS64" /\ header.e_machine = "EM_ARM"    -> "ARM_64"
      [] header.ei_class = "ELFCLASS64" /\ header.e_machine \in X86Family -> "X86_64"
      [] header.ei_class = "ELFCLASS32" /\ header.e_machine = "EM_ARM"    -> "ARM_32"
      [] header.ei_class = "ELFCLASS32" /\ header.e_machine \in X86Family -> "X86"
      [] OTHER -> "UNKNOWN"

\* C6: the architecture is a total function of bit class and machine: 64-bit
\* ARM is ARM_64, 64-bit x86-family is X86_64, 32-bit ARM is ARM_32, 32-bit
\* x86-family is X86, anything else UNKNOWN.
C6_Claimed ==
    /\ architecture \in Architecture
    /\ elf_header # NoHeader => architecture = ClaimedArchitecture(elf_header)

SymbolLines == LET IsSymbolLine(l) == l.tag = "symbol" IN SelectSeq(stdout, IsSymbolLine)

RawReport == [i \in 1..Len(top_symbols) |-> SymLine(top_symbols[i][1], top_symbols[i][2])]

FullReport == \A tag \in TotalTags \cup {"Symbol sizes:"} : Printed(tag)

\* C7: when c++filt's output does not split into one line per name and a
\* final empty one, demangle returns the raw names and the run goes on to
\* print the full report.
C7_Claimed ==
    (cxxfilt.status = "ran" /\ Len(cxxfilt.lines) # Len(top_symbols) + 1) =>
        /\ pc = "done"
        /\ error = "none"
        /\ SymbolLines = RawReport
        /\ FullReport

\* C8: when c++filt cannot be started (OSError), demangle returns the names it
\* was given and the run prints the full report, each raw name beside the size
\* of the same position of top_symbols.
C8_UnavailableFallback ==
    cxxfilt.status = "OSError" =>
        /\ pc = "done"
        /\ error = "none"
        /\ SymbolLines = RawReport
        /\ FullReport

C8_Witness ==
    /\ cxxfilt.status = "OSError"
    /\ pc = "done"
    /\ top_symbols = << <<"main", 2>>, <<"_Z1fv", 1>> >>

\* C9: a missing or unreadable file, an invalid ELF or a record that fails to
\* parse ends the run: the error leaves process() uncaught, the file was
\* opened at most once and is closed, and neither the symbol list nor any
\* total is ever printed.
C9_FatalFailure ==
    error \in {"IOError", "ELFError"} =>
        /\ pc = "failed"
        /\ ~file_open
        /\ opens = 1
        /\ top_symbols = <<>>
        /\ ~ParseReturned
        /\ ~Printed("Symbol sizes:")
        /\ SymbolLines = <<>>
        /\ \A tag \in TotalTags : ~Printed(tag)
        /\ ~ENABLED Next

C9_Witness ==
    /\ error = "ELFError"
    /\ pc = "failed"
    /\ Len(sections) = 2
    /\ IsSymtab(sections[2])
    /\ total_size > 0
    /\ total_strings > 0

\* ---- sizeof_fmt
AllUnits == Units \o <<"Yi">>

\* the smallest k with num < 1024^(k+1), capped at Yi
ClaimedUnitIndex(num) == Min(IF num = <<>> THEN 0 ELSE Len(num) - 1, Len(Units))

\* t tenths is num / 1024^k to one decimal: 10 * num / 1024^k is within a half of t
\* (num below 1024^3, so that the arithmetic stays in range)
NearestTenth(num, k, t) ==
    LET n == LimbsToInt(num)
        d == IF k = 0 THEN 1 ELSE IF k = 1 THEN Base ELSE Base * Base
        q == n \div d
        r == n % d
        e == 10 * r - (t - 10 * q) * d
    IN  2 * e <= d /\ 2 * e >= -d

AsClaimed(num, out) ==
    LET k == ClaimedUnitIndex(num)
    IN  /\ out.unit = AllUnits[k + 1]
        /\ out.text = Digits(out.tenths \div 10) \o <<".">> \o Digits(out.tenths % 10)
                      \o UnitChars(AllUnits[k + 1]) \o <<"B">>
        /\ Len(num) <= 3 => NearestTenth(num, k, out.tenths)
        /\ (Len(num) > 3 /\ k < Len(Units)) =>
              out.tenths \div 10 \in {num[1], num[1] + 1}
        /\ num = <<1, 512>> => out.text = <<"1", ".", "5", "K", "i", "B">>
        /\ num = <<>> => out.text = <<"0", ".", "0", "B">>

\* C10 as stated: for every byte count the unit is that of the smallest k
\* with num < 1024^(k+1), capped at Yi, and the number is num / 1024^k to one
\* decimal; 1536 gives "1.5KiB", 0 gives "0.0B".
C10_Claimed == fmt_out # NoFmt => AsClaimed(fmt_num, fmt_out)

\* num < 2^53: the double holds the byte count exactly
Exact(num) == num = <<>> \/ LimbBits * (Len(num) - 1) + BitLen(num[1]) <= MantBits

\* C10 amended: the same, for byte counts below 2^53.
C10_ExactCounts == (fmt_out # NoFmt /\ Exact(fmt_num)) => AsClaimed(fmt_num, fmt_out)

C10_Witness ==
    /\ fmt_num = <<1, 512>>
    /\ fmt_out.text = <<"1", ".", "5", "K", "i", "B">>

====
